---------------------------- MODULE Spec2Model ----------------------------
(***************************************************************************)
(* Model of the Connect-Four search engine, class AIPlayer of              *)
(* "Connect4 Assignment Starter Code/Player.py".                           *)
(*                                                                         *)
(* The board is the numpy array self.board: ROWS x COLS cells over         *)
(* {0,1,2}, row 0 on top, indexed board[row][col] from 0 as in the source. *)
(* The recursive search is modelled with an explicit call stack: one frame *)
(* per active call of a get_*_move / get_*_value method.                   *)
(*                                                                         *)
(* Modelling notes.                                                        *)
(*  - float("inf"), float("-inf") and the IEEE NaN that inf + (-inf)       *)
(*    produces are values of their own (PosInf, NegInf, NaN); finite       *)
(*    scores are exact rationals held as integers scaled by SCALE, so the  *)
(*    rounding of binary floating point is not modelled.                   *)
(*  - np.int (lines 261, 268) is read as the alias of the builtin int it   *)
(*    was in the numpy releases the program was written for.               *)
(***************************************************************************)
EXTENDS Integers, Sequences, FiniteSets, TLC

VARIABLES
    board,          \* self.board, the array shared with the caller
    player_number,  \* self.player_number
    stack,          \* the call stack of the search, root first
    last            \* record of the last direct call of a board/scanner method

vars == <<board, player_number, stack, last>>

(***************************************************************************)
(* Program constants                                                       *)
(***************************************************************************)
ROWS == 6

COLS == 7

\* self.depth = 4
DEPTH == 4

\* self.possible_moves = (0, 1, 2, 3, 4, 5, 6)
possible_moves_all == <<0, 1, 2, 3, 4, 5, 6>>

\* self.opponent_number = int(2 / player_number)
opponent_number == 2 \div player_number

RowIx == 0 .. (ROWS - 1)

ColIx == 0 .. (COLS - 1)

(***************************************************************************)
(* Extended reals as Python floats give them                               *)
(***************************************************************************)
\* Finite values are integers scaled by SCALE = lcm(1..7)^2, which makes the
\* two nested divisions by len(possible_moves) of the expectimax exact.
SCALE == 420 * 420

Fin(n) == <<0, n>>

PosInf == <<1, 0>>

NegInf == <<-1, 0>>

NaN == <<2, 0>>

IsNaN(a) == a[1] = 2

\* a > b on floats: false as soon as one side is NaN
Gt(a, b) ==
    /\ ~IsNaN(a)
    /\ ~IsNaN(b)
    /\ \/ a[1] > b[1]
       \/ a[1] = 0 /\ b[1] = 0 /\ a[2] > b[2]

Ge(a, b) == ~IsNaN(a) /\ ~IsNaN(b) /\ (Gt(a, b) \/ a = b)

Le(a, b) == Ge(b, a)

\* Python's max(a, b): b only if b > a, else a
PyMax(a, b) == IF Gt(b, a) THEN b ELSE a

\* Python's min(a, b): b only if b < a, else a
PyMin(a, b) == IF Gt(a, b) THEN b ELSE a

\* a + b on floats
FAdd(a, b) ==
    IF IsNaN(a) \/ IsNaN(b) THEN NaN
    ELSE IF a[1] = 0 /\ b[1] = 0 THEN Fin(a[2] + b[2])
    ELSE IF a[1] = 0 THEN b
    ELSE IF b[1] = 0 THEN a
    ELSE IF a[1] = b[1] THEN a
    ELSE NaN

\* v * probability with probability = 1 / n, n >= 1
FMulProb(v, n) == IF v[1] = 0 THEN Fin(v[2] \div n) ELSE v

(***************************************************************************)
(* Board model                                                             *)
(***************************************************************************)
Column(b, move) == [r \in RowIx |-> b[r][move]]

\* 0 in self.board[:, move]
ZeroInColumn(b, move) == \E r \in RowIx : b[r][move] = 0

SetMin(S) == CHOOSE x \in S : \A y \in S : x <= y

\* update_board with its first test weakened: `self.board[row - 1, move] == 0`
\* alone, without `self.board[row, move] > 0`
update_board_weak_test(b, move, player_num) ==
    IF ZeroInColumn(b, move)
    THEN LET hit == {row \in 1 .. (ROWS - 1) :
                        \/ b[row - 1][move] = 0
                        \/ row = ROWS - 1 /\ b[row][move] = 0}
         IN  IF hit = {} THEN b
             ELSE LET row == SetMin(hit)
                      update_row == IF b[row - 1][move] = 0 THEN row - 1 ELSE row
                  IN  [b EXCEPT ![update_row][move] = player_num]
    ELSE b

\* update_board: the first row of range(1, ROWS) that yields update_row >= 0
update_board(b, move, player_num) ==
    IF ZeroInColumn(b, move)
    THEN LET hit == {row \in 1 .. (ROWS - 1) :
                        \/ b[row][move] > 0 /\ b[row - 1][move] = 0
                        \/ row = ROWS - 1 /\ b[row][move] = 0}
         IN  IF hit = {} THEN b
             ELSE LET row == SetMin(hit)
                      update_row == IF b[row][move] > 0 /\ b[row - 1][move] = 0
                                    THEN row - 1 ELSE row
                  IN  [b EXCEPT ![update_row][move] = player_num]
    ELSE b

\* revert_move writing the last empty row instead of the first occupied one
revert_row_last_empty(b, move) ==
    IF ZeroInColumn(b, move)
    THEN Cardinality({r \in RowIx : b[r][move] = 0}) - 1
    ELSE 0

\* revert_move: the row it writes; ROWS (out of range) for an all-zero column
revert_row(b, move) ==
    IF ZeroInColumn(b, move)
    THEN Cardinality({r \in RowIx : b[r][move] = 0})
    ELSE 0

\* self.board[row, move] = 0 raises IndexError when row = ROWS
revert_raises(b, move) == revert_row(b, move) >= ROWS

\* revert_move without its else branch: a full column is left as it is
revert_move_keeps_full(b, move) ==
    IF ZeroInColumn(b, move) /\ ~revert_raises(b, move)
    THEN [b EXCEPT ![revert_row(b, move)][move] = 0]
    ELSE b

revert_move(b, move) ==
    IF revert_raises(b, move) THEN b
    ELSE [b EXCEPT ![revert_row(b, move)][move] = 0]

(***************************************************************************)
(* Line scanner                                                            *)
(***************************************************************************)
\* An array (self.board, self.board.T, np.fliplr(self.board)) or a diagonal
\* of one is a view of self.board: it is held as the coordinates <<row, col>>
\* of its cells in self.board, and read through the board when it is used.

\* self.board, as the sequence of its rows
Board2D == [r \in 1 .. ROWS |-> [c \in 1 .. COLS |-> <<r - 1, c - 1>>]]

\* a.T
Transpose(a) == [c \in 1 .. Len(a[1]) |-> [r \in 1 .. Len(a) |-> a[r][c]]]

\* np.fliplr(a)
fliplr(a) == [r \in 1 .. Len(a) |-> [c \in 1 .. Len(a[r]) |-> a[r][Len(a[r]) + 1 - c]]]

IMin(x, y) == IF x <= y THEN x ELSE y

\* np.diagonal(a, offset)
diagonal(a, offset) ==
    IF offset >= 0
    THEN [k \in 1 .. IMin(Len(a), Len(a[1]) - offset) |-> a[k][k + offset]]
    ELSE [k \in 1 .. IMin(Len(a) + offset, Len(a[1])) |-> a[k - offset][k]]

\* self.board.T
BoardT == Transpose(Board2D)

\* check_diagonal without the np.fliplr pass
Diagonals_no_flip ==
    LET offsets == {0} \cup UNION {{i, -i} : i \in 1 .. (COLS - 4)}
    IN  {diagonal(Board2D, offset) : offset \in offsets}

\* the diagonals check_diagonal reads, for op in [None, np.fliplr]: offset 0,
\* then offset in [i, -i] for i in range(1, self.board.shape[1] - 3)
Diagonals ==
    LET offsets == {0} \cup UNION {{i, -i} : i \in 1 .. (COLS - 4)}
    IN  {diagonal(op_board, offset) :
            op_board \in {Board2D, fliplr(Board2D)}, offset \in offsets}

\* str of one cell value, as a.astype(str) gives it
Digit(n) == CASE n = 0 -> "0" [] n = 1 -> "1" [] n = 2 -> "2"

\* '{0}{0}00'.format(player) and the like: "x" stands for {0}
Format(t, p) == [k \in 1 .. Len(t) |-> IF t[k] = "x" THEN Digit(p) ELSE t[k]]

\* a match of player_string as a whole run: the cell before it and the cell
\* after it, if any, do not repeat its first and last character
in_to_str_exact(player_string, b, a) ==
    \E k \in 1 .. (Len(a) - Len(player_string) + 1) :
        /\ \A j \in 1 .. Len(player_string) :
              Digit(b[a[k + j - 1][1]][a[k + j - 1][2]]) = player_string[j]
        /\ k > 1 => Digit(b[a[k - 1][1]][a[k - 1][2]]) # player_string[1]
        /\ k + Len(player_string) <= Len(a)
              => Digit(b[a[k + Len(player_string)][1]][a[k + Len(player_string)][2]])
                     # player_string[Len(player_string)]

\* player_string in to_str(a), with to_str = ''.join(a.astype(str)): the
\* characters of player_string are those of the cells a[k], a[k+1], ... of b
\* for some k
in_to_str(player_string, b, a) ==
    \E k \in 1 .. (Len(a) - Len(player_string) + 1) :
        \A j \in 1 .. Len(player_string) :
            Digit(b[a[k + j - 1][1]][a[k + j - 1][2]]) = player_string[j]

check_horizontal(b, a, player_string) ==
    \E row \in 1 .. Len(a) : in_to_str(player_string, b, a[row])

\* check_vertical reading each column from the bottom row up
check_vertical_bottom_up(b, player_string) ==
    check_horizontal(b,
                     [c \in 1 .. Len(BoardT) |->
                         [r \in 1 .. Len(BoardT[c]) |->
                             BoardT[c][Len(BoardT[c]) + 1 - r]]],
                     player_string)

check_vertical(b, player_string) == check_horizontal(b, BoardT, player_string)

check_diagonal(b, player_string) ==
    \E diag \in Diagonals : in_to_str(player_string, b, diag)

\* 1 or 0
is_sequence_in_board(b, sequence_to_find) ==
    IF \/ check_horizontal(b, Board2D, sequence_to_find)
       \/ check_vertical(b, sequence_to_find)
       \/ check_diagonal(b, sequence_to_find)
    THEN 1 ELSE 0

is_four_in_a_row(b) ==
    \/ is_sequence_in_board(b, <<"1", "1", "1", "1">>) = 1
    \/ is_sequence_in_board(b, <<"2", "2", "2", "2">>) = 1

\* '0' in to_str(board_transpose[move])
is_col_full(b, move) == ~in_to_str(<<"0">>, b, BoardT[move + 1])

get_possible_moves(b) ==
    SelectSeq(possible_moves_all, LAMBDA move : ~is_col_full(b, move))

(***************************************************************************)
(* Evaluation heuristic and cutoff                                         *)
(***************************************************************************)
\* evaluation_function testing did_i_win before did_opponent_win
evaluation_function_win_first(b, player, opponent) ==
    LET did_opponent_win ==
            is_sequence_in_board(b, Format(<<"x", "x", "x", "x">>, opponent))
        did_i_win == is_sequence_in_board(b, Format(<<"x", "x", "x", "x">>, player))
        player_score ==
            is_sequence_in_board(b, Format(<<"x", "x", "x", "0">>, player)) * 1000
            + is_sequence_in_board(b, Format(<<"x", "x", "0", "0">>, player)) * 100
        opponent_score ==
            is_sequence_in_board(b, Format(<<"x", "x", "x", "0">>, opponent)) * 1000
            + is_sequence_in_board(b, Format(<<"x", "x", "0", "0">>, opponent)) * 100
    IN  IF did_i_win = 1 THEN PosInf
        ELSE IF did_opponent_win = 1 THEN NegInf
        ELSE Fin((player_score - opponent_score) * SCALE)

evaluation_function(b, player, opponent) ==
    LET two_in_a_row == Format(<<"x", "x", "0", "0">>, player)
        two_in_a_row_enemy == Format(<<"x", "x", "0", "0">>, opponent)
        three_in_a_row == Format(<<"x", "x", "x", "0">>, player)
        three_in_a_row_enemy == Format(<<"x", "x", "x", "0">>, opponent)
        four_in_a_row == Format(<<"x", "x", "x", "x">>, player)
        four_in_a_row_enemy == Format(<<"x", "x", "x", "x">>, opponent)
        did_opponent_win == is_sequence_in_board(b, four_in_a_row_enemy)
        did_i_win == is_sequence_in_board(b, four_in_a_row)
        player_score == is_sequence_in_board(b, three_in_a_row) * 1000
                        + is_sequence_in_board(b, two_in_a_row) * 100
        opponent_score == is_sequence_in_board(b, three_in_a_row_enemy) * 1000
                          + is_sequence_in_board(b, two_in_a_row_enemy) * 100
    IN  IF did_opponent_win = 1 THEN NegInf
        ELSE IF did_i_win = 1 THEN PosInf
        ELSE Fin((player_score - opponent_score) * SCALE)

cutoff_function(b, depth, possible_moves) ==
    \/ depth = 0
    \/ Len(possible_moves) = 0
    \/ is_four_in_a_row(b)

(***************************************************************************)
(* Call stack                                                              *)
(***************************************************************************)
\* One frame per active call.  fn: the method; depth, alpha, beta: its
\* arguments; v: its running v_max / v_min / v_chance; moves: its local
\* possible_moves; i: the position of its for loop (1-based); col: the root's
\* col_to_return; pc: "loop" (inside the for loop), "ret" (returned, rv is
\* the value) or "raise" (left by the exception exc); entry: the board as it
\* was when the call was entered; line: the source line of the return or
\* raise statement that ended the call (0 while it runs); vals: for a root
\* call and for a chance node, the values its nested calls returned so far,
\* in loop order, and choice: what np.random.choice drew (col, as first
\* assigned).
Frame(fn, depth, alpha, beta, v, moves, col, pc, rv, exc, entry, line) ==
    [fn |-> fn, depth |-> depth, alpha |-> alpha, beta |-> beta, v |-> v,
     moves |-> moves, i |-> 1, col |-> col, pc |-> pc, rv |-> rv,
     exc |-> exc, entry |-> entry, line |-> line, vals |-> <<>>,
     choice |-> col]

Top == stack[Len(stack)]

Caller == stack[Len(stack) - 1]

\* replace the two topmost frames (callee, caller) by the caller's new frame
Return(f) == [k \in 1 .. (Len(stack) - 1) |-> IF k = Len(stack) - 1 THEN f ELSE stack[k]]

\* replace the topmost frame
SetTop(f) == [stack EXCEPT ![Len(stack)] = f]

Running(fn) == Len(stack) > 0 /\ Top.fn = fn /\ Top.pc = "loop"

Returned(fn) == Len(stack) > 1 /\ Top.pc = "ret" /\ Caller.fn = fn

\* the frame of a call that raises
Raised(f, exc, line) == [f EXCEPT !.pc = "raise", !.exc = exc, !.line = line]

(***************************************************************************)
(* Alpha-beta minimax                                                      *)
(***************************************************************************)
\* lines 49-54: entry of get_alpha_beta_max_value on board b
get_alpha_beta_max_value(b, depth, alpha, beta) ==
    LET possible_moves == get_possible_moves(b)
    IN  IF cutoff_function(b, depth, possible_moves)
        THEN Frame("get_alpha_beta_max_value", depth, alpha, beta, NegInf,
                   possible_moves, -1, "ret",
                   evaluation_function(b, player_number, opponent_number),
                   "", b, 54)
        ELSE Frame("get_alpha_beta_max_value", depth, alpha, beta, NegInf,
                   possible_moves, -1, "loop", NegInf, "", b, 0)

\* lines 66-72: entry of get_alpha_beta_min_value on board b
get_alpha_beta_min_value(b, depth, alpha, beta) ==
    LET possible_moves == get_possible_moves(b)
    IN  IF cutoff_function(b, depth, possible_moves)
        THEN Frame("get_alpha_beta_min_value", depth, alpha, beta, PosInf,
                   possible_moves, -1, "ret",
                   evaluation_function(b, player_number, opponent_number),
                   "", b, 72)
        ELSE Frame("get_alpha_beta_min_value", depth, alpha, beta, PosInf,
                   possible_moves, -1, "loop", PosInf, "", b, 0)

\* lines 34-39 with col_to_return = possible_moves[0] for the random draw
get_alpha_beta_move_first_default ==
    /\ stack = <<>>
    /\ LET possible_moves == get_possible_moves(board)
       IN  /\ Len(possible_moves) > 0
           /\ stack' = <<Frame("get_alpha_beta_move", DEPTH, NegInf, PosInf,
                               NegInf, possible_moves, possible_moves[1],
                               "loop", NegInf, "", board, 0)>>
    /\ UNCHANGED <<board, player_number, last>>

\* lines 34-39: the call; col_to_return = np.random.choice(possible_moves).
\* The caller guarantees a legal move (np.random.choice raises on []).
get_alpha_beta_move ==
    /\ stack = <<>>
    /\ LET possible_moves == get_possible_moves(board)
       IN  /\ Len(possible_moves) > 0
           /\ \E k \in 1 .. Len(possible_moves) :
                 stack' = <<Frame("get_alpha_beta_move", DEPTH, NegInf, PosInf,
                                  NegInf, possible_moves, possible_moves[k],
                                  "loop", NegInf, "", board, 0)>>
    /\ UNCHANGED <<board, player_number, last>>

\* lines 40-42: one iteration up to the nested call
get_alpha_beta_move_loop ==
    /\ Running("get_alpha_beta_move")
    /\ Top.i <= Len(Top.moves)
    /\ board' = update_board(board, Top.moves[Top.i], player_number)
    /\ stack' = Append(stack,
                       get_alpha_beta_min_value(board', Top.depth, Top.alpha, Top.beta))
    /\ UNCHANGED <<player_number, last>>

\* lines 43-46 with `if v >= v_max` for `if v > v_max`
get_alpha_beta_move_resume_ge ==
    /\ Returned("get_alpha_beta_move")
    /\ LET f == Caller
           move == f.moves[f.i]
           v == Top.rv
       IN  /\ board' = revert_move(board, move)
           /\ stack' = Return([f EXCEPT !.v = IF Ge(v, f.v) THEN v ELSE @,
                                        !.col = IF Ge(v, f.v) THEN move ELSE @,
                                        !.vals = Append(@, v),
                                        !.i = @ + 1])
    /\ UNCHANGED <<player_number, last>>

\* lines 43-46: after the nested call returned
get_alpha_beta_move_resume ==
    /\ Returned("get_alpha_beta_move")
    /\ LET f == Caller
           move == f.moves[f.i]
           v == Top.rv
       IN  IF revert_raises(board, move)
           THEN /\ board' = board
                /\ stack' = Return(Raised(f, "IndexError", 206))
           ELSE /\ board' = revert_move(board, move)
                /\ stack' = Return([f EXCEPT !.v = IF Gt(v, f.v) THEN v ELSE @,
                                             !.col = IF Gt(v, f.v) THEN move ELSE @,
                                             !.vals = Append(@, v),
                                             !.i = @ + 1])
    /\ UNCHANGED <<player_number, last>>

\* line 47: return col_to_return
get_alpha_beta_move_return ==
    /\ Running("get_alpha_beta_move")
    /\ Top.i > Len(Top.moves)
    /\ stack' = SetTop([Top EXCEPT !.pc = "ret", !.rv = Top.v, !.line = 47])
    /\ UNCHANGED <<board, player_number, last>>

\* lines 56-59: one iteration up to the nested call (if depth > 0)
get_alpha_beta_max_value_loop ==
    /\ Running("get_alpha_beta_max_value")
    /\ Top.i <= Len(Top.moves)
    /\ IF Top.depth > 0
       THEN /\ board' = update_board(board, Top.moves[Top.i], player_number)
            /\ stack' = Append(stack,
                   get_alpha_beta_min_value(board', Top.depth - 1, Top.alpha, Top.beta))
       ELSE /\ board' = board
            /\ stack' = SetTop([Top EXCEPT !.i = @ + 1])
    /\ UNCHANGED <<player_number, last>>

\* lines 59-63: v_max = max(v_max, <returned>), revert, beta cutoff, alpha
get_alpha_beta_max_value_resume ==
    /\ Returned("get_alpha_beta_max_value")
    /\ LET f == Caller
           move == f.moves[f.i]
           v_max == PyMax(f.v, Top.rv)
       IN  IF revert_raises(board, move)
           THEN /\ board' = board
                /\ stack' = Return(Raised(f, "IndexError", 206))
           ELSE /\ board' = revert_move(board, move)
                /\ stack' = Return(
                       IF Ge(v_max, f.beta)
                       THEN [f EXCEPT !.v = v_max, !.pc = "ret", !.rv = v_max, !.line = 62]
                       ELSE [f EXCEPT !.v = v_max, !.alpha = PyMax(@, v_max),
                                      !.i = @ + 1])
    /\ UNCHANGED <<player_number, last>>

\* line 64: return v_max after the loop
get_alpha_beta_max_value_return ==
    /\ Running("get_alpha_beta_max_value")
    /\ Top.i > Len(Top.moves)
    /\ stack' = SetTop([Top EXCEPT !.pc = "ret", !.rv = Top.v, !.line = 64])
    /\ UNCHANGED <<board, player_number, last>>

\* lines 74-77
get_alpha_beta_min_value_loop ==
    /\ Running("get_alpha_beta_min_value")
    /\ Top.i <= Len(Top.moves)
    /\ IF Top.depth > 0
       THEN /\ board' = update_board(board, Top.moves[Top.i], opponent_number)
            /\ stack' = Append(stack,
                   get_alpha_beta_max_value(board', Top.depth - 1, Top.alpha, Top.beta))
       ELSE /\ board' = board
            /\ stack' = SetTop([Top EXCEPT !.i = @ + 1])
    /\ UNCHANGED <<player_number, last>>

\* lines 77-81 with the cutoff test `v_min <= beta` for `v_min <= alpha`
get_alpha_beta_min_value_resume_beta ==
    /\ Returned("get_alpha_beta_min_value")
    /\ LET f == Caller
           move == f.moves[f.i]
           v_min == PyMin(f.v, Top.rv)
       IN  /\ board' = revert_move(board, move)
           /\ stack' = Return(
                  IF Le(v_min, f.beta)
                  THEN [f EXCEPT !.v = v_min, !.pc = "ret", !.rv = v_min, !.line = 80]
                  ELSE [f EXCEPT !.v = v_min, !.beta = PyMin(@, v_min),
                                 !.i = @ + 1])
    /\ UNCHANGED <<player_number, last>>

\* lines 77-81: v_min = min(v_min, <returned>), revert, alpha cutoff, beta
get_alpha_beta_min_value_resume ==
    /\ Returned("get_alpha_beta_min_value")
    /\ LET f == Caller
           move == f.moves[f.i]
           v_min == PyMin(f.v, Top.rv)
       IN  IF revert_raises(board, move)
           THEN /\ board' = board
                /\ stack' = Return(Raised(f, "IndexError", 206))
           ELSE /\ board' = revert_move(board, move)
                /\ stack' = Return(
                       IF Le(v_min, f.alpha)
                       THEN [f EXCEPT !.v = v_min, !.pc = "ret", !.rv = v_min, !.line = 80]
                       ELSE [f EXCEPT !.v = v_min, !.beta = PyMin(@, v_min),
                                      !.i = @ + 1])
    /\ UNCHANGED <<player_number, last>>

\* line 82: return v_min after the loop
get_alpha_beta_min_value_return ==
    /\ Running("get_alpha_beta_min_value")
    /\ Top.i > Len(Top.moves)
    /\ stack' = SetTop([Top EXCEPT !.pc = "ret", !.rv = Top.v, !.line = 82])
    /\ UNCHANGED <<board, player_number, last>>

(***************************************************************************)
(* Expectimax                                                              *)
(***************************************************************************)
\* lines 117-122: entry of get_expectimax_max_value on board b
get_expectimax_max_value(b, depth) ==
    LET possible_moves == get_possible_moves(b)
    IN  IF cutoff_function(b, depth, possible_moves)
        THEN Frame("get_expectimax_max_value", depth, NegInf, PosInf, NegInf,
                   possible_moves, -1, "ret",
                   evaluation_function(b, player_number, opponent_number),
                   "", b, 122)
        ELSE Frame("get_expectimax_max_value", depth, NegInf, PosInf, NegInf,
                   possible_moves, -1, "loop", NegInf, "", b, 0)

\* lines 131-137: entry of get_expectimax_chance_value on board b;
\* probability = 1 / len(possible_moves) is computed before the cutoff test
get_expectimax_chance_value(b, depth) ==
    LET possible_moves == get_possible_moves(b)
    IN  IF Len(possible_moves) = 0
        THEN Frame("get_expectimax_chance_value", depth, NegInf, PosInf, Fin(0),
                   possible_moves, -1, "raise", NaN, "ZeroDivisionError", b, 134)
        ELSE IF cutoff_function(b, depth, possible_moves)
        THEN Frame("get_expectimax_chance_value", depth, NegInf, PosInf, Fin(0),
                   possible_moves, -1, "ret",
                   evaluation_function(b, player_number, opponent_number),
                   "", b, 137)
        ELSE Frame("get_expectimax_chance_value", depth, NegInf, PosInf, Fin(0),
                   possible_moves, -1, "loop", Fin(0), "", b, 0)

\* lines 105-108
get_expectimax_move ==
    /\ stack = <<>>
    /\ LET possible_moves == get_possible_moves(board)
       IN  /\ Len(possible_moves) > 0
           /\ \E k \in 1 .. Len(possible_moves) :
                 stack' = <<Frame("get_expectimax_move", DEPTH, NegInf, PosInf,
                                  NegInf, possible_moves, possible_moves[k],
                                  "loop", NegInf, "", board, 0)>>
    /\ UNCHANGED <<board, player_number, last>>

\* lines 109-111
get_expectimax_move_loop ==
    /\ Running("get_expectimax_move")
    /\ Top.i <= Len(Top.moves)
    /\ board' = update_board(board, Top.moves[Top.i], player_number)
    /\ stack' = Append(stack, get_expectimax_chance_value(board', Top.depth - 1))
    /\ UNCHANGED <<player_number, last>>

\* lines 112-114 with `if v >= v_max` for `if v > v_max`
get_expectimax_move_resume_ge ==
    /\ Returned("get_expectimax_move")
    /\ LET f == Caller
           move == f.moves[f.i]
           v == Top.rv
       IN  stack' = Return([f EXCEPT !.v = IF Ge(v, f.v) THEN v ELSE @,
                                     !.col = IF Ge(v, f.v) THEN move ELSE @,
                                     !.vals = Append(@, v),
                                     !.i = @ + 1])
    /\ UNCHANGED <<board, player_number, last>>

\* lines 112-114: no revert_move here
get_expectimax_move_resume ==
    /\ Returned("get_expectimax_move")
    /\ LET f == Caller
           move == f.moves[f.i]
           v == Top.rv
       IN  stack' = Return([f EXCEPT !.v = IF Gt(v, f.v) THEN v ELSE @,
                                     !.col = IF Gt(v, f.v) THEN move ELSE @,
                                     !.vals = Append(@, v),
                                     !.i = @ + 1])
    /\ UNCHANGED <<board, player_number, last>>

\* line 115
get_expectimax_move_return ==
    /\ Running("get_expectimax_move")
    /\ Top.i > Len(Top.moves)
    /\ stack' = SetTop([Top EXCEPT !.pc = "ret", !.rv = Top.v, !.line = 115])
    /\ UNCHANGED <<board, player_number, last>>

\* lines 124-126
get_expectimax_max_value_loop ==
    /\ Running("get_expectimax_max_value")
    /\ Top.i <= Len(Top.moves)
    /\ board' = update_board(board, Top.moves[Top.i], player_number)
    /\ stack' = Append(stack, get_expectimax_chance_value(board', Top.depth - 1))
    /\ UNCHANGED <<player_number, last>>

\* lines 127-128
get_expectimax_max_value_resume ==
    /\ Returned("get_expectimax_max_value")
    /\ LET f == Caller
           move == f.moves[f.i]
       IN  IF revert_raises(board, move)
           THEN /\ board' = board
                /\ stack' = Return(Raised(f, "IndexError", 206))
           ELSE /\ board' = revert_move(board, move)
                /\ stack' = Return([f EXCEPT !.v = PyMax(@, Top.rv), !.i = @ + 1])
    /\ UNCHANGED <<player_number, last>>

\* line 129
get_expectimax_max_value_return ==
    /\ Running("get_expectimax_max_value")
    /\ Top.i > Len(Top.moves)
    /\ stack' = SetTop([Top EXCEPT !.pc = "ret", !.rv = Top.v, !.line = 129])
    /\ UNCHANGED <<board, player_number, last>>

\* lines 139-141: the loop runs over self.possible_moves, all seven columns
get_expectimax_chance_value_loop ==
    /\ Running("get_expectimax_chance_value")
    /\ Top.i <= Len(possible_moves_all)
    /\ board' = update_board(board, possible_moves_all[Top.i], opponent_number)
    /\ stack' = Append(stack, get_expectimax_max_value(board', Top.depth - 1))
    /\ UNCHANGED <<player_number, last>>

\* lines 142-143: v_chance += v * probability, probability = 1 / len(possible_moves)
get_expectimax_chance_value_resume ==
    /\ Returned("get_expectimax_chance_value")
    /\ LET f == Caller
           move == possible_moves_all[f.i]
       IN  IF revert_raises(board, move)
           THEN /\ board' = board
                /\ stack' = Return(Raised(f, "IndexError", 206))
           ELSE /\ board' = revert_move(board, move)
                /\ stack' = Return([f EXCEPT
                                      !.v = FAdd(@, FMulProb(Top.rv, Len(f.moves))),
                                      !.vals = Append(@, Top.rv),
                                      !.i = @ + 1])
    /\ UNCHANGED <<player_number, last>>

\* line 144
get_expectimax_chance_value_return ==
    /\ Running("get_expectimax_chance_value")
    /\ Top.i > Len(possible_moves_all)
    /\ stack' = SetTop([Top EXCEPT !.pc = "ret", !.rv = Top.v, !.line = 144])
    /\ UNCHANGED <<board, player_number, last>>

\* an exception leaves the frame that raised it and is raised in its caller:
\* no method of the class catches anything
Unwind ==
    /\ Len(stack) > 1
    /\ Top.pc = "raise"
    /\ stack' = Return(Raised(Caller, Top.exc, Top.line))
    /\ UNCHANGED <<board, player_number, last>>

(***************************************************************************)
(* Direct calls of the board model and of the scanner                      *)
(***************************************************************************)
NoCall == [op |-> "none"]

\* the most direct calls of update_board / revert_move in one run
MaxCalls == 3

Calls(l) == IF l.op = "none" THEN 0 ELSE l.n

\* update_board(move, player_num) on a column that still has an empty cell
update_board_call ==
    /\ Calls(last) < MaxCalls
    /\ \E move \in ColIx, player_num \in {1, 2} :
          /\ ZeroInColumn(board, move)
          /\ board' = update_board(board, move, player_num)
          /\ last' = [op |-> "update_board", move |-> move, before |-> board,
                      exc |-> "", n |-> Calls(last) + 1]
    /\ UNCHANGED <<player_number, stack>>

\* revert_move(move); `undoes` says whether the call before it was
\* update_board on the same column, and pair is then the board before both
revert_move_call ==
    /\ Calls(last) < MaxCalls
    /\ \E move \in ColIx :
          LET undoes == last.op = "update_board" /\ last.move = move
              rec == [op |-> "revert_move", move |-> move, before |-> board,
                      undoes |-> undoes,
                      pair |-> IF undoes THEN last.before ELSE board,
                      exc |-> "", n |-> Calls(last) + 1]
          IN  IF revert_raises(board, move)
              THEN /\ board' = board
                   /\ last' = [rec EXCEPT !.exc = "IndexError"]
              ELSE /\ board' = revert_move(board, move)
                   /\ last' = rec
    /\ UNCHANGED <<player_number, stack>>

is_four_in_a_row_call ==
    /\ last = NoCall
    /\ last' = [op |-> "is_four_in_a_row", result |-> is_four_in_a_row(board)]
    /\ UNCHANGED <<board, player_number, stack>>

\* evaluation_function(self.player_number, self.opponent_number), as every
\* caller calls it
evaluation_function_call ==
    /\ last = NoCall
    /\ last' = [op |-> "evaluation_function",
                result |-> evaluation_function(board, player_number, opponent_number)]
    /\ UNCHANGED <<board, player_number, stack>>

(***************************************************************************)
(* Boards                                                                  *)
(***************************************************************************)
EmptyBoard == [r \in RowIx |-> [c \in ColIx |-> 0]]

\* A full board without any run of four; the boards a search is started on
\* are this position with the topmost cells of some columns still empty.
FullBoard ==
    LET rows == << <<1, 2, 1, 1, 2, 2, 2>>,
                   <<2, 1, 1, 2, 1, 1, 2>>,
                   <<2, 2, 1, 2, 1, 1, 1>>,
                   <<1, 2, 2, 2, 1, 2, 2>>,
                   <<2, 1, 1, 1, 2, 2, 2>>,
                   <<1, 1, 2, 1, 2, 2, 1>> >>
    IN  [r \in RowIx |-> [c \in ColIx |-> rows[r + 1][c + 1]]]

\* FullBoard with the gap[c] topmost cells of column c empty
Truncated(gap) ==
    [r \in RowIx |-> [c \in ColIx |-> IF r < gap[c] THEN 0 ELSE FullBoard[r][c]]]

\* the truncations with empty cells in the columns `open` only, at most
\* maxgap in each, and at least one legal move
Truncations(open, maxgap) ==
    {Truncated(gap) : gap \in {g \in [ColIx -> 0 .. maxgap] :
                                  /\ \A c \in ColIx \ open : g[c] = 0
                                  /\ \E c \in ColIx : g[c] > 0}}

\* alpha-beta is started on boards with up to MaxGap empty cells in each of
\* three columns
MaxGap == 3

AlphaBetaBoards == Truncations({1, 3, 4}, MaxGap)

\* expectimax, whose chance nodes have seven children each, on boards with up
\* to MaxGapExpectimax empty cells in each of two columns
MaxGapExpectimax == 2

ExpectimaxBoards == Truncations({3, 4}, MaxGapExpectimax)

\* the scanner reads any array over {0,1,2}: boards holding one straight run
\* of up to MaxRun cells of one marker, anywhere and in any direction, and
\* possibly a horizontal run of the other marker in the top or bottom row
MaxRun == 5

Directions == {<<0, 1>>, <<1, 0>>, <<1, 1>>, <<1, -1>>}

RunCells(r, c, d, n) == {<<r + k * d[1], c + k * d[2]>> : k \in 0 .. (n - 1)}

OnBoard(cells) == \A x \in cells : x[1] \in RowIx /\ x[2] \in ColIx

Stamp(b, cells, m) ==
    [r \in RowIx |-> [c \in ColIx |-> IF <<r, c>> \in cells THEN m ELSE b[r][c]]]

FirstRuns ==
    {cells \in {RunCells(r, c, d, n) :
                   r \in RowIx, c \in ColIx, d \in Directions, n \in 1 .. MaxRun} :
        OnBoard(cells)}

SecondRuns ==
    {{}} \cup {RunCells(r, 0, <<0, 1>>, n) : r \in {0, ROWS - 1}, n \in 3 .. 4}

ScanBoards ==
    {Stamp(Stamp(EmptyBoard, second, 3 - m), first, m) :
        first \in FirstRuns, second \in SecondRuns, m \in {1, 2}}

(***************************************************************************)
(* Specifications                                                          *)
(***************************************************************************)
InitAlphaBeta ==
    /\ board \in AlphaBetaBoards
    /\ player_number \in {1, 2}
    /\ stack = <<>>
    /\ last = NoCall

NextAlphaBeta ==
    \/ get_alpha_beta_move
    \/ get_alpha_beta_move_loop
    \/ get_alpha_beta_move_resume
    \/ get_alpha_beta_move_return
    \/ get_alpha_beta_max_value_loop
    \/ get_alpha_beta_max_value_resume
    \/ get_alpha_beta_max_value_return
    \/ get_alpha_beta_min_value_loop
    \/ get_alpha_beta_min_value_resume
    \/ get_alpha_beta_min_value_return

\* get_alpha_beta_move and the calls nested in it
SpecAlphaBeta == InitAlphaBeta /\ [][NextAlphaBeta]_vars

InitExpectimax ==
    /\ board \in ExpectimaxBoards
    /\ player_number \in {1, 2}
    /\ stack = <<>>
    /\ last = NoCall

NextExpectimax ==
    \/ get_expectimax_move
    \/ get_expectimax_move_loop
    \/ get_expectimax_move_resume
    \/ get_expectimax_move_return
    \/ get_expectimax_max_value_loop
    \/ get_expectimax_max_value_resume
    \/ get_expectimax_max_value_return
    \/ get_expectimax_chance_value_loop
    \/ get_expectimax_chance_value_resume
    \/ get_expectimax_chance_value_return
    \/ Unwind

\* get_expectimax_move and the calls nested in it
SpecExpectimax == InitExpectimax /\ [][NextExpectimax]_vars

InitGame ==
    /\ board \in {EmptyBoard} \cup ExpectimaxBoards
    /\ player_number = 1
    /\ stack = <<>>
    /\ last = NoCall

NextGame ==
    \/ update_board_call
    \/ revert_move_call

\* update_board and revert_move called directly, in any order
SpecGame == InitGame /\ [][NextGame]_vars

InitScan ==
    /\ board \in ScanBoards
    /\ player_number \in {1, 2}
    /\ stack = <<>>
    /\ last = NoCall

NextScan ==
    \/ is_four_in_a_row_call
    \/ evaluation_function_call

\* the scanner and the evaluation on one board
SpecScan == InitScan /\ [][NextScan]_vars

\* both searches, started on the boards of the expectimax
NextSearch ==
    \/ NextAlphaBeta
    \/ NextExpectimax

SpecSearch == InitExpectimax /\ [][NextSearch]_vars

(***************************************************************************)
(* Properties                                                              *)
(***************************************************************************)
AlphaBetaFns ==
    {"get_alpha_beta_move", "get_alpha_beta_max_value", "get_alpha_beta_min_value"}

\* the top-level call has returned
RootReturned(fn) ==
    Len(stack) = 1 /\ stack[1].fn = fn /\ stack[1].pc = "ret"

\* no empty cell has an occupied cell below it
Gravity(b) ==
    \A c \in ColIx : \A r \in 0 .. (ROWS - 2) : b[r][c] # 0 => b[r + 1][c] # 0

\* n cells of marker m in a straight line, by coordinates
HasRun(b, m, n) ==
    \E r \in RowIx, c \in ColIx, d \in Directions :
        /\ OnBoard(RunCells(r, c, d, n))
        /\ \A x \in RunCells(r, c, d, n) : b[x[1]][x[2]] = m

\* C1: every alpha-beta call (the top-level get_alpha_beta_move and each
\* nested max/min call, also one left through a beta or alpha cutoff) returns
\* with the board equal, cell by cell, to the board at that call's entry.
C1_AlphaBetaRestoresBoard ==
    \A k \in 1 .. Len(stack) :
        (stack[k].fn \in AlphaBetaFns /\ stack[k].pc = "ret")
            => board = stack[k].entry

\* a nested max call has just returned through the beta cutoff of line 62
\* with moves of its loop left unvisited
C1_Witness ==
    /\ Len(stack) > 1
    /\ Top.pc = "ret"
    /\ Top.line = 62
    /\ Top.i < Len(Top.moves)
    /\ board = Top.entry

\* C2 (as claimed): when get_expectimax_move returns, every cell of the
\* board equals its value at call entry.
C2_ExpectimaxRestoresBoard ==
    RootReturned("get_expectimax_move") => board = stack[1].entry

\* C3 (as claimed): the column returned by get_alpha_beta_move or
\* get_expectimax_move is in [0,7) and has an empty cell on the board as it
\* stands when the call returns.
C3_ChosenColumnPlayable ==
    (RootReturned("get_alpha_beta_move") \/ RootReturned("get_expectimax_move"))
        => /\ stack[1].col \in ColIx
           /\ ZeroInColumn(board, stack[1].col)

\* C4: after any sequence of update_board calls on columns that still have
\* an empty cell, no empty cell has an occupied cell below it.
C4_GravityInvariant == Gravity(board)

\* update_board has just put a piece on top of another piece
C4_Witness ==
    /\ last.op = "update_board"
    /\ \E r \in 0 .. (ROWS - 2) :
          /\ last.before[r][last.move] = 0
          /\ board[r][last.move] # 0
          /\ board[r + 1][last.move] # 0

\* C5: update_board(c, m) on a column with an empty cell, followed at once
\* by revert_move(c), leaves every cell as it was before the pair, and
\* raises nothing.
C5_ApplyUndoRoundTrip ==
    (last.op = "revert_move" /\ last.undoes)
        => (last.exc = "" /\ board = last.pair)

\* the pair has run on a column whose last empty cell (row 0) the
\* update_board filled
C5_Witness ==
    /\ last.op = "revert_move"
    /\ last.undoes
    /\ last.before[0][last.move] # 0
    /\ last.pair[0][last.move] = 0
    /\ board = last.pair

\* C6 (as claimed): a search node entered with no legal move returns
\* evaluation_function(player, opponent) through the cutoff and raises
\* nothing.
C6_FullBoardNodeReturnsEvaluation ==
    \A k \in 1 .. Len(stack) :
        Len(stack[k].moves) = 0
            => /\ stack[k].pc = "ret"
               /\ stack[k].rv = evaluation_function(stack[k].entry,
                                                    player_number, opponent_number)

\* C7: is_four_in_a_row is true exactly when four cells of one marker are
\* consecutive along a row, a column or a diagonal of either direction.
C7_WinDetection ==
    last.op = "is_four_in_a_row"
        => (last.result <=> (HasRun(board, 1, 4) \/ HasRun(board, 2, 4)))

\* is_four_in_a_row has said no on a board that holds a run of three
C7_Witness ==
    /\ last.op = "is_four_in_a_row"
    /\ ~last.result
    /\ HasRun(board, 1, 3)

\* C8: evaluation_function returns -infinity when the opponent has a run of
\* four, whatever else is on the board; otherwise +infinity when the player
\* has one; and a finite score only when neither has.
C8_EvaluationSentinels ==
    last.op = "evaluation_function"
        => LET lost == HasRun(board, opponent_number, 4)
               won == HasRun(board, player_number, 4)
           IN  /\ lost => last.result = NegInf
               /\ (~lost /\ won) => last.result = PosInf
               /\ (~lost /\ ~won) => last.result[1] = 0

\* the evaluation of a board on which both markers have a run of four
C8_Witness ==
    /\ last.op = "evaluation_function"
    /\ HasRun(board, opponent_number, 4)
    /\ HasRun(board, player_number, 4)
    /\ last.result = NegInf

(***************************************************************************)
(* Plain minimax, the reference of C9: no alpha, no beta, no cutoff test   *)
(* inside the loops                                                        *)
(***************************************************************************)
Range(q) == {q[k] : k \in 1 .. Len(q)}

\* the greatest / least of a non-empty set of values without NaN
VMax(S) == CHOOSE v \in S : \A w \in S : Ge(v, w)

VMin(S) == CHOOSE v \in S : \A w \in S : Le(v, w)

RECURSIVE minimax_max(_, _), minimax_min(_, _)

minimax_max(b, depth) ==
    LET possible_moves == get_possible_moves(b)
    IN  IF cutoff_function(b, depth, possible_moves)
        THEN evaluation_function(b, player_number, opponent_number)
        ELSE VMax({minimax_min(update_board(b, move, player_number), depth - 1) :
                      move \in Range(possible_moves)})

minimax_min(b, depth) ==
    LET possible_moves == get_possible_moves(b)
    IN  IF cutoff_function(b, depth, possible_moves)
        THEN evaluation_function(b, player_number, opponent_number)
        ELSE VMin({minimax_max(update_board(b, move, opponent_number), depth - 1) :
                      move \in Range(possible_moves)})

\* the root: the first column, in ascending order, whose value is strictly
\* greater than every value before it; the default when no value exceeds
\* -infinity
minimax_move(b, default) ==
    LET moves == Range(get_possible_moves(b))
        value == [move \in moves |->
                     minimax_min(update_board(b, move, player_number), DEPTH)]
        best == VMax({value[move] : move \in moves})
    IN  [v |-> best,
         col |-> IF best = NegInf THEN default
                 ELSE SetMin({move \in moves : value[move] = best})]

\* C9: the value get_alpha_beta_min_value(depth, -inf, +inf) returns for each
\* root child, and the column and root value get_alpha_beta_move ends with,
\* are those of plain minimax with the same cutoff, evaluation, move order,
\* strict-greater selection and random default.
C9_AlphaBetaEqualsMinimax ==
    /\ Returned("get_alpha_beta_move")
          => Top.rv = minimax_min(Top.entry, DEPTH)
    /\ RootReturned("get_alpha_beta_move")
          => LET plain == minimax_move(stack[1].entry, stack[1].choice)
             IN  /\ stack[1].col = plain.col
                 /\ stack[1].rv = plain.v

\* a root child has returned through the alpha cutoff of line 80, moves of
\* its loop left unvisited, with the value of plain minimax
C9_Witness ==
    /\ Returned("get_alpha_beta_move")
    /\ Top.line = 80
    /\ Top.i < Len(Top.moves)
    /\ Top.rv = minimax_min(Top.entry, DEPTH)

(***************************************************************************)
(* The immediate win of C10                                                *)
(***************************************************************************)
\* cell <<r, c>> is empty and the next piece of its column lands on it
Playable(b, r, c) ==
    /\ c \in ColIx
    /\ b[r][c] = 0
    /\ r = ROWS - 1 \/ b[r + 1][c] # 0

\* the columns completing a horizontal run of exactly three of marker m that
\* has exactly one open (empty and playable) end
CompletingColumns(b, m) ==
    {e \in ColIx :
        \E r \in RowIx, c \in 0 .. (COLS - 3) :
            /\ \A k \in 0 .. 2 : b[r][c + k] = m
            /\ c - 1 \in ColIx => b[r][c - 1] # m
            /\ c + 3 \in ColIx => b[r][c + 3] # m
            /\ e \in {c - 1, c + 3}
            /\ Playable(b, r, e)
            /\ ~Playable(b, r, (2 * c + 2) - e)}

\* the legal columns where a piece of marker m makes a run of four
WinningColumns(b, m) ==
    {c \in ColIx : ZeroInColumn(b, c) /\ HasRun(update_board(b, c, m), m, 4)}

\* player 1 to move, no run of four on the board, a horizontal three of
\* player 1 with one open end, and no winning move for the opponent to block
ImmediateWin(b) ==
    /\ player_number = 1
    /\ ~HasRun(b, 1, 4)
    /\ ~HasRun(b, 2, 4)
    /\ CompletingColumns(b, 1) # {}
    /\ WinningColumns(b, 2) = {}

\* the legal columns whose root child returned +infinity
InfColumns(f) == {f.moves[k] : k \in {j \in 1 .. Len(f.vals) : f.vals[j] = PosInf}}

\* C10 (as claimed): on such a board get_alpha_beta_move for player 1
\* returns the column that completes the four.
C10_ImmediateWinTaken ==
    (RootReturned("get_alpha_beta_move") /\ ImmediateWin(stack[1].entry))
        => stack[1].col \in CompletingColumns(stack[1].entry, 1)

\* C10 (amended): on such a board get_alpha_beta_move for player 1 returns
\* the lowest-indexed legal column whose root child value is +infinity; the
\* completing column is one of these, so it is returned unless a
\* lower-indexed legal column has the value +infinity too.
C10_LowestWinningValueTaken ==
    (RootReturned("get_alpha_beta_move") /\ ImmediateWin(stack[1].entry))
        => /\ stack[1].rv = PosInf
           /\ CompletingColumns(stack[1].entry, 1) \subseteq InfColumns(stack[1])
           /\ stack[1].col = SetMin(InfColumns(stack[1]))

\* on such a board the completing column is the one returned
C10_Witness ==
    /\ RootReturned("get_alpha_beta_move")
    /\ ImmediateWin(stack[1].entry)
    /\ stack[1].col \in CompletingColumns(stack[1].entry, 1)
    /\ stack[1].col = SetMin(InfColumns(stack[1]))

(***************************************************************************)
(* The chance node of C11                                                  *)
(***************************************************************************)
\* a chance node that ran its loop to the end and returned at line 144
ChanceReturned(f) ==
    f.fn = "get_expectimax_chance_value" /\ f.pc = "ret" /\ f.line = 144

AllFinite(vals) == \A j \in 1 .. Len(vals) : vals[j][1] = 0

RECURSIVE SumOver(_, _, _)
\* the sum of vals[c + 1] / n over the columns c of the set cols
SumOver(cols, vals, n) ==
    IF cols = {} THEN 0
    ELSE LET c == SetMin(cols)
         IN  (vals[c + 1][2] \div n) + SumOver(cols \ {c}, vals, n)

\* C11 (as claimed): a chance node that was not cut off and whose child
\* values are all finite returns the sum, over the legal columns c, of the
\* value of the child reached by the opponent playing c times
\* 1 / |legal moves|, also when some columns are full.
C11_ChanceNodeAveraging ==
    \A k \in 1 .. Len(stack) :
        (ChanceReturned(stack[k]) /\ AllFinite(stack[k].vals))
            => stack[k].rv = Fin(SumOver(Range(stack[k].moves), stack[k].vals,
                                         Len(stack[k].moves)))

(***************************************************************************)
(* The root selection of C12 and C13                                       *)
(***************************************************************************)
RootFns == {"get_alpha_beta_move", "get_expectimax_move"}

\* the positions of the root loop whose child value is greater than -infinity
AboveNegInf(f) == {k \in 1 .. Len(f.vals) : Gt(f.vals[k], NegInf)}

\* among them, those whose value is the maximum
Maximal(f) ==
    {k \in AboveNegInf(f) : \A j \in AboveNegInf(f) : Ge(f.vals[k], f.vals[j])}

\* C12: when a root child of get_alpha_beta_move or get_expectimax_move has
\* a value greater than -infinity, the column returned is the lowest-indexed
\* legal column whose child value is the maximum, whatever default column
\* was drawn.
C12_RootTieBreaking ==
    \A fn \in RootFns :
        (RootReturned(fn) /\ AboveNegInf(stack[1]) # {})
            => stack[1].col = stack[1].moves[SetMin(Maximal(stack[1]))]

\* get_expectimax_move has returned the lower of two columns that tie at the
\* maximum, the default drawn being another column
C12_Witness ==
    /\ RootReturned("get_expectimax_move")
    /\ Cardinality(Maximal(stack[1])) > 1
    /\ stack[1].col = stack[1].moves[SetMin(Maximal(stack[1]))]
    /\ stack[1].choice # stack[1].col

\* every root child returned exactly -infinity
AllNegInf(f) ==
    /\ Len(f.vals) = Len(f.moves)
    /\ \A k \in 1 .. Len(f.vals) : f.vals[k] = NegInf

\* C13: when every root child of get_alpha_beta_move is exactly -infinity,
\* the column returned is the default drawn, a legal column of the input
\* board; and the draw can give every legal column of the input board.
C13_RandomFallback ==
    /\ (RootReturned("get_alpha_beta_move") /\ AllNegInf(stack[1]))
          => /\ stack[1].col = stack[1].choice
             /\ stack[1].col \in Range(get_possible_moves(stack[1].entry))
    /\ stack = <<>>
          => \A c \in Range(get_possible_moves(board)) :
                ENABLED (get_alpha_beta_move /\ stack'[1].choice = c)

\* all root children are -infinity, and the column returned is the highest
\* of several legal columns
C13_Witness ==
    /\ RootReturned("get_alpha_beta_move")
    /\ AllNegInf(stack[1])
    /\ Len(stack[1].moves) > 1
    /\ stack[1].col = stack[1].moves[Len(stack[1].moves)]
    /\ stack[1].col # 0

(***************************************************************************)
(* Nested expectimax calls                                                 *)
(***************************************************************************)
ExpectimaxNested == {"get_expectimax_chance_value", "get_expectimax_max_value"}

\* the number of pieces in column c
PieceCount(b, c) == Cardinality({r \in RowIx : b[r][c] # 0})

\* C14 (as claimed): every call of get_expectimax_chance_value and
\* get_expectimax_max_value returns with the board equal to the board at
\* that call's entry, and so with the same number of pieces in every column,
\* also when columns are full while the chance node runs through its moves.
C14_ExpectimaxStackDiscipline ==
    \A k \in 1 .. Len(stack) :
        (stack[k].fn \in ExpectimaxNested /\ stack[k].pc = "ret")
            => /\ board = stack[k].entry
               /\ \A c \in ColIx :
                     PieceCount(board, c) = PieceCount(stack[k].entry, c)

\* column c holds no piece
EmptyColumn(b, c) == \A r \in RowIx : b[r][c] = 0

\* C15 (as claimed): revert_move(c) on a column that is entirely empty
\* raises no error and leaves the board unchanged.
C15_UndoOnEmptyColumn ==
    (last.op = "revert_move" /\ EmptyColumn(last.before, last.move))
        => (last.exc = "" /\ board = last.before)

(***************************************************************************)
(* Runs longer than four                                                   *)
(***************************************************************************)
\* the cells of marker m are exactly five consecutive cells of one line, and
\* the other marker has no run of four
OnlyRunOfFive(b, m) ==
    /\ \E r \in RowIx, c \in ColIx, d \in Directions :
          /\ OnBoard(RunCells(r, c, d, 5))
          /\ {x \in RowIx \X ColIx : b[x[1]][x[2]] = m} = RunCells(r, c, d, 5)
    /\ ~HasRun(b, 3 - m, 4)

\* C16 (as claimed): on a board whose only run of a marker is five
\* consecutive cells in a line, is_sequence_in_board with the win pattern of
\* that marker, and so is_four_in_a_row, reports no match.
C16_RunOfFiveIsNoMatch ==
    \A m \in {1, 2} :
        (last.op = "is_four_in_a_row" /\ OnlyRunOfFive(board, m))
            => /\ ~last.result
               /\ is_sequence_in_board(board, Format(<<"x", "x", "x", "x">>, m)) = 0

\* C16 (amended): on such a board is_sequence_in_board with the win pattern
\* of that marker reports a match, and is_four_in_a_row is true: the pattern
\* is looked for as a substring, and a run of five contains it.
C16_RunOfFiveMatches ==
    \A m \in {1, 2} :
        (last.op = "is_four_in_a_row" /\ OnlyRunOfFive(board, m))
            => /\ last.result
               /\ is_sequence_in_board(board, Format(<<"x", "x", "x", "x">>, m)) = 1

\* is_four_in_a_row has said yes on a board whose only pieces are a diagonal
\* run of five of marker 2
C16_Witness ==
    /\ last.op = "is_four_in_a_row"
    /\ last.result
    /\ OnlyRunOfFive(board, 2)
    /\ \A r \in RowIx, c \in ColIx : board[r][c] # 1
    /\ \E r \in RowIx, c \in ColIx :
          {x \in RowIx \X ColIx : board[x[1]][x[2]] = 2}
              = RunCells(r, c, <<1, -1>>, 5)

(***************************************************************************)
(* Termination                                                             *)
(***************************************************************************)
\* along the nested calls below the root's first call the depth argument
\* goes down by exactly one per level, and is never negative
DepthDiscipline ==
    /\ \A k \in 2 .. (Len(stack) - 1) : stack[k + 1].depth = stack[k].depth - 1
    /\ \A k \in 1 .. Len(stack) : stack[k].depth >= 0

\* a node with depth 0, no legal move or a run of four on its board has
\* applied no move: it never entered its loop
CutoffAppliesNoMove ==
    \A k \in 2 .. Len(stack) :
        cutoff_function(stack[k].entry, stack[k].depth, stack[k].moves)
            => /\ stack[k].pc # "loop"
               /\ stack[k].i = 1
               /\ stack[k].vals = <<>>

\* C17 (as claimed): the depth argument decreases by one per level and is
\* never negative, a cut-off node applies no move, and every call of
\* get_alpha_beta_move and get_expectimax_move returns: the search stops
\* only when the top-level call has returned.
C17_SearchTerminates ==
    /\ DepthDiscipline
    /\ CutoffAppliesNoMove
    /\ stack # <<>>
          => \/ ENABLED NextSearch
             \/ \E fn \in RootFns : RootReturned(fn)

(***************************************************************************)
(* Undefined chance values                                                 *)
(***************************************************************************)
\* C18 (as claimed): no chance node adds a +infinity child value and a
\* -infinity child value into the same sum, so the running sum and the value
\* a chance node returns are never NaN, and no NaN reaches the v > v_max of
\* the root or the max(v_max, v) of a max node.
C18_ChanceValuesDefined ==
    \A k \in 1 .. Len(stack) :
        /\ stack[k].fn = "get_expectimax_chance_value"
              => /\ ~(\E i, j \in 1 .. Len(stack[k].vals) :
                         stack[k].vals[i] = PosInf /\ stack[k].vals[j] = NegInf)
                 /\ ~IsNaN(stack[k].v)
                 /\ stack[k].pc = "ret" => ~IsNaN(stack[k].rv)
        /\ stack[k].fn \in {"get_expectimax_move", "get_expectimax_max_value"}
              => /\ ~IsNaN(stack[k].v)
                 /\ \A j \in 1 .. Len(stack[k].vals) : ~IsNaN(stack[k].vals[j])

(***************************************************************************)
(* Vertical threats                                                        *)
(***************************************************************************)
\* '{0}{0}00' and '{0}{0}{0}0'
Templates == {<<"x", "x", "0", "0">>, <<"x", "x", "x", "0">>}

\* the pieces of the board are n pieces of marker m stacked at the bottom of
\* one column
LoneStack(b, m, n) ==
    \E c \in ColIx :
        \A r \in RowIx, d \in ColIx :
            b[r][d] = IF d = c /\ r >= ROWS - n THEN m ELSE 0

\* C19: on a gravity-respecting board the two-in-a-row and three-in-a-row
\* templates never match along a column read top to bottom, so
\* is_sequence_in_board finds them through rows and diagonals only, and a
\* board holding nothing but a vertical stack of two or three pieces with
\* empty cells above evaluates to 0.
C19_VerticalThreatsNeverScore ==
    Gravity(board)
        => /\ \A t \in Templates, m \in {1, 2} :
                 /\ ~check_vertical(board, Format(t, m))
                 /\ is_sequence_in_board(board, Format(t, m)) = 1
                       <=> \/ check_horizontal(board, Board2D, Format(t, m))
                           \/ check_diagonal(board, Format(t, m))
           /\ \A m \in {1, 2}, n \in 2 .. 3 :
                 LoneStack(board, m, n)
                    => evaluation_function(board, player_number, opponent_number)
                          = Fin(0)

\* three update_board calls have stacked three pieces of the player in one
\* column of the empty board, and the board evaluates to 0
C19_Witness ==
    /\ last.op = "update_board"
    /\ Gravity(board)
    /\ LoneStack(board, player_number, 3)
    /\ evaluation_function(board, player_number, opponent_number) = Fin(0)

=============================================================================
